---- MODULE Spec2Model ----
(***************************************************************************)
(* A model of src/libcore/char.rs: scalar value validation, digit/radix    *)
(* conversion, UTF-8 / UTF-16 encoding of one char into a caller-owned     *)
(* buffer, and the two lazy escape iterators.  Characters are modelled by  *)
(* their code points (`self as u32` is the code point itself); the casts   *)
(* to u8 and u16 truncate.                                                 *)
(***************************************************************************)
EXTENDS Integers, Sequences, FiniteSets, TLC

----------------------------------------------------------------------------
(* Bounds of the model *)

\* every scalar value up to LowMax is an input
LowMax == 300
\* and every scalar value within Window of an interesting code point
Window == 2
\* largest destination buffer capacity
MaxCap == 5
\* largest radix / digit number passed to the digit codec
MaxRadix == 40
MaxNum == 40
\* number of next() calls made on an iterator after it first returned None
MaxNone == 2

----------------------------------------------------------------------------
(* Program constants *)

TAG_CONT == 128
TAG_TWO_B == 192
TAG_THREE_B == 224
TAG_FOUR_B == 240
MAX_ONE_B == 128
MAX_TWO_B == 2048
MAX_THREE_B == 65536
MAX == 1114111

----------------------------------------------------------------------------
(* Option<T> and the panic outcome *)

None == [tag |-> "None"]
Some(x) == [tag |-> "Some", val |-> x]
Panic == [tag |-> "Panic"]
IsSome(r) == r.tag = "Some"

----------------------------------------------------------------------------
(* Fixed-width integer operations *)

Pow2(n) == 2 ^ n

\* x >> n on a non-negative value
Shr(x, n) == x \div Pow2(n)

RECURSIVE BitAnd(_, _)
BitAnd(x, y) ==
    IF x = 0 \/ y = 0 THEN 0
    ELSE (IF x % 2 = 1 /\ y % 2 = 1 THEN 1 ELSE 0) + 2 * BitAnd(x \div 2, y \div 2)

RECURSIVE BitOr(_, _)
BitOr(x, y) ==
    IF x = 0 THEN y
    ELSE IF y = 0 THEN x
    ELSE (IF x % 2 = 1 \/ y % 2 = 1 THEN 1 ELSE 0) + 2 * BitOr(x \div 2, y \div 2)

AsU8(x) == x % 256
AsU16(x) == x % 65536

----------------------------------------------------------------------------
(* Scalar values *)

\* from_u32: catch out-of-bounds and surrogates
from_u32(i) ==
    IF (i > MAX) \/ (i >= 55296 /\ i <= 57343) THEN None ELSE Some(i)

\* code points around which the code changes behaviour, and the examples
Interesting ==
    { 0, 9, 10, 13, 32, 34, 39, 48, 57, 65, 90, 92, 97, 122, 126, 127, 128,
      255, 256, 2047, 2048, 4095, 4096, 8364, 55295, 57344, 65535, 65536,
      128512, 262143, 262144, 1048575, 1048576, 1114111 }

Clamp(v) == IF v < 0 THEN 0 ELSE IF v > MAX + Window THEN MAX + Window ELSE v

\* the char values the operations are called with
Chars ==
    { v \in (0 .. LowMax) \cup
            UNION { (Clamp(b - Window) .. Clamp(b + Window)) : b \in Interesting } :
        IsSome(from_u32(v)) }

----------------------------------------------------------------------------
(* State *)

VARIABLES
    op,       \* the operation that produced the current state
    c,        \* the char (self) of the call
    width,    \* element width of the destination buffer: 8 (u8) or 16 (u16)
    dst,      \* the destination buffer
    ret,      \* the value returned by the call
    radix,    \* radix argument of the digit codec
    num,      \* num argument of from_digit
    uni,      \* a UnicodeEscapedChars iterator
    uniOut,   \* the chars it has yielded so far
    uniRet,   \* what its last next() returned
    uniNones, \* how many next() calls returned None
    def,      \* a DefaultEscapedChars iterator
    defOut,
    defRet,
    defNones

vars == << op, c, width, dst, ret, radix, num,
           uni, uniOut, uniRet, uniNones, def, defOut, defRet, defNones >>

encVars == << width, dst >>
digitVars == << radix, num >>
escVars == << uni, uniOut, uniRet, uniNones, def, defOut, defRet, defNones >>

----------------------------------------------------------------------------
(* Encoders *)

\* Char::len_utf8
len_utf8(self) ==
    LET code == self IN
    IF code < MAX_ONE_B THEN 1
    ELSE IF code < MAX_TWO_B THEN 2
    ELSE IF code < MAX_THREE_B THEN 3
    ELSE 4

\* Char::len_utf16
len_utf16(self) ==
    LET ch == self IN
    IF BitAnd(ch, 65535) = ch THEN 1 ELSE 2

\* dst[i] = v with Rust's 0-based index i
Store(buf, i, v) == [buf EXCEPT ![i + 1] = v]

\* encode_utf8 with the one-byte bound off by one (code <= MAX_ONE_B)
encode_utf8_OffByOne(self, buf) ==
    LET code == self IN
    IF code <= MAX_ONE_B /\ Len(buf) >= 1 THEN
        [dst |-> Store(buf, 0, AsU8(code)), ret |-> Some(1)]
    ELSE IF code < MAX_TWO_B /\ Len(buf) >= 2 THEN
        LET b0 == Store(buf, 0, BitOr(AsU8(BitAnd(Shr(code, 6), 31)), TAG_TWO_B))
            b1 == Store(b0, 1, BitOr(AsU8(BitAnd(code, 63)), TAG_CONT))
        IN [dst |-> b1, ret |-> Some(2)]
    ELSE IF code < MAX_THREE_B /\ Len(buf) >= 3 THEN
        LET b0 == Store(buf, 0, BitOr(AsU8(BitAnd(Shr(code, 12), 15)), TAG_THREE_B))
            b1 == Store(b0, 1, BitOr(AsU8(BitAnd(Shr(code, 6), 63)), TAG_CONT))
            b2 == Store(b1, 2, BitOr(AsU8(BitAnd(code, 63)), TAG_CONT))
        IN [dst |-> b2, ret |-> Some(3)]
    ELSE IF Len(buf) >= 4 THEN
        LET b0 == Store(buf, 0, BitOr(AsU8(BitAnd(Shr(code, 18), 7)), TAG_FOUR_B))
            b1 == Store(b0, 1, BitOr(AsU8(BitAnd(Shr(code, 12), 63)), TAG_CONT))
            b2 == Store(b1, 2, BitOr(AsU8(BitAnd(Shr(code, 6), 63)), TAG_CONT))
            b3 == Store(b2, 3, BitOr(AsU8(BitAnd(code, 63)), TAG_CONT))
        IN [dst |-> b3, ret |-> Some(4)]
    ELSE
        [dst |-> buf, ret |-> None]

\* Char::encode_utf8: the buffer after the call and the returned value
encode_utf8(self, buf) ==
    LET code == self IN
    IF code < MAX_ONE_B /\ Len(buf) >= 1 THEN
        [dst |-> Store(buf, 0, AsU8(code)), ret |-> Some(1)]
    ELSE IF code < MAX_TWO_B /\ Len(buf) >= 2 THEN
        LET b0 == Store(buf, 0, BitOr(AsU8(BitAnd(Shr(code, 6), 31)), TAG_TWO_B))
            b1 == Store(b0, 1, BitOr(AsU8(BitAnd(code, 63)), TAG_CONT))
        IN [dst |-> b1, ret |-> Some(2)]
    ELSE IF code < MAX_THREE_B /\ Len(buf) >= 3 THEN
        LET b0 == Store(buf, 0, BitOr(AsU8(BitAnd(Shr(code, 12), 15)), TAG_THREE_B))
            b1 == Store(b0, 1, BitOr(AsU8(BitAnd(Shr(code, 6), 63)), TAG_CONT))
            b2 == Store(b1, 2, BitOr(AsU8(BitAnd(code, 63)), TAG_CONT))
        IN [dst |-> b2, ret |-> Some(3)]
    ELSE IF Len(buf) >= 4 THEN
        LET b0 == Store(buf, 0, BitOr(AsU8(BitAnd(Shr(code, 18), 7)), TAG_FOUR_B))
            b1 == Store(b0, 1, BitOr(AsU8(BitAnd(Shr(code, 12), 63)), TAG_CONT))
            b2 == Store(b1, 2, BitOr(AsU8(BitAnd(Shr(code, 6), 63)), TAG_CONT))
            b3 == Store(b2, 3, BitOr(AsU8(BitAnd(code, 63)), TAG_CONT))
        IN [dst |-> b3, ret |-> Some(4)]
    ELSE
        [dst |-> buf, ret |-> None]

\* encode_utf16 that stores the high surrogate before it has checked that
\* the low one fits
encode_utf16_PartialWrite(self, buf) ==
    LET ch == self IN
    IF BitAnd(ch, 65535) = ch /\ Len(buf) >= 1 THEN
        [dst |-> Store(buf, 0, AsU16(ch)), ret |-> Some(1)]
    ELSE IF Len(buf) >= 1 THEN
        LET ch2 == ch - 65536
            b0 == Store(buf, 0, BitOr(55296, AsU16(Shr(ch2, 10))))
            b1 == Store(b0, 1, BitOr(56320, BitAnd(AsU16(ch2), 1023)))
        IN IF Len(buf) >= 2 THEN [dst |-> b1, ret |-> Some(2)]
           ELSE [dst |-> b0, ret |-> None]
    ELSE
        [dst |-> buf, ret |-> None]

\* encode_utf16 that forgets to subtract 0x10000 before splitting
encode_utf16_NoSubtract(self, buf) ==
    LET ch == self IN
    IF BitAnd(ch, 65535) = ch /\ Len(buf) >= 1 THEN
        [dst |-> Store(buf, 0, AsU16(ch)), ret |-> Some(1)]
    ELSE IF Len(buf) >= 2 THEN
        LET ch2 == ch
            b0 == Store(buf, 0, BitOr(55296, AsU16(Shr(ch2, 10))))
            b1 == Store(b0, 1, BitOr(56320, BitAnd(AsU16(ch2), 1023)))
        IN [dst |-> b1, ret |-> Some(2)]
    ELSE
        [dst |-> buf, ret |-> None]

\* Char::encode_utf16
encode_utf16(self, buf) ==
    LET ch == self IN
    IF BitAnd(ch, 65535) = ch /\ Len(buf) >= 1 THEN
        [dst |-> Store(buf, 0, AsU16(ch)), ret |-> Some(1)]
    ELSE IF Len(buf) >= 2 THEN
        \* reached only with ch >= 0x10000 (a 16-bit ch needs Len(buf) = 0 to get
        \* past the first test), so the u32 subtraction does not wrap
        LET ch2 == ch - 65536
            b0 == Store(buf, 0, BitOr(55296, AsU16(Shr(ch2, 10))))
            b1 == Store(b0, 1, BitOr(56320, BitAnd(AsU16(ch2), 1023)))
        IN [dst |-> b1, ret |-> Some(2)]
    ELSE
        [dst |-> buf, ret |-> None]

\* the buffers a caller hands in: any capacity up to MaxCap, every element
\* either all-zeros or all-ones of the element width
Fill(w) == {0, Pow2(w) - 1}
Buffers(w) == UNION { [1 .. n -> Fill(w)] : n \in 0 .. MaxCap }


\* the state of the variables an operation family does not use
NoIter == [state |-> "None"]
IdleEnc == width = 8 /\ dst = << >>
IdleDigit == radix = 0 /\ num = 0
IdleEsc ==
    /\ uni = NoIter /\ uniOut = << >> /\ uniRet = None /\ uniNones = 0
    /\ def = NoIter /\ defOut = << >> /\ defRet = None /\ defNones = 0

\* a caller owns a buffer and a char and has not called yet
InitEncode ==
    /\ op = "init"
    /\ c \in Chars
    /\ width \in {8, 16}
    /\ dst \in Buffers(width)
    /\ ret = None
    /\ IdleDigit
    /\ IdleEsc

\* c.encode_utf8(dst)
EncodeUtf8 ==
    /\ op = "init"
    /\ width = 8
    /\ LET r == encode_utf8(c, dst) IN
        /\ dst' = r.dst
        /\ ret' = r.ret
    /\ op' = "encode_utf8"
    /\ UNCHANGED << c, width, digitVars, escVars >>

\* c.encode_utf16(dst)
EncodeUtf16 ==
    /\ op = "init"
    /\ width = 16
    /\ LET r == encode_utf16(c, dst) IN
        /\ dst' = r.dst
        /\ ret' = r.ret
    /\ op' = "encode_utf16"
    /\ UNCHANGED << c, width, digitVars, escVars >>

NextEncode == EncodeUtf8 \/ EncodeUtf16

SpecEncode == InitEncode /\ [][NextEncode]_vars

----------------------------------------------------------------------------
(* Digit codec *)

\* the result of a call that returns a plain value
Ok(v) == [tag |-> "Ok", val |-> v]

\* to_digit that forgets the + 10 of the uppercase letters
to_digit_UpperNoTen(self, r) ==
    IF r > 36 THEN Panic
    ELSE IF self >= 48 /\ self <= 57 THEN
        LET val == self - 48 IN IF val < r THEN Some(val) ELSE None
    ELSE IF self >= 97 /\ self <= 122 THEN
        LET val == self + 10 - 97 IN IF val < r THEN Some(val) ELSE None
    ELSE IF self >= 65 /\ self <= 90 THEN
        LET val == self - 65 IN IF val < r THEN Some(val) ELSE None
    ELSE None

\* to_digit that checks the radix only after it has matched the char
to_digit_LateCheck(self, r) ==
    IF self >= 48 /\ self <= 57 THEN
        LET val == self - 48 IN
        IF r > 36 THEN Panic ELSE IF val < r THEN Some(val) ELSE None
    ELSE IF self >= 97 /\ self <= 122 THEN
        LET val == self + 10 - 97 IN
        IF r > 36 THEN Panic ELSE IF val < r THEN Some(val) ELSE None
    ELSE IF self >= 65 /\ self <= 90 THEN
        LET val == self + 10 - 65 IN
        IF r > 36 THEN Panic ELSE IF val < r THEN Some(val) ELSE None
    ELSE None

\* to_digit that accepts val <= radix
to_digit_Inclusive(self, r) ==
    IF r > 36 THEN Panic
    ELSE IF self >= 48 /\ self <= 57 THEN
        LET val == self - 48 IN IF val <= r THEN Some(val) ELSE None
    ELSE IF self >= 97 /\ self <= 122 THEN
        LET val == self + 10 - 97 IN IF val <= r THEN Some(val) ELSE None
    ELSE IF self >= 65 /\ self <= 90 THEN
        LET val == self + 10 - 65 IN IF val <= r THEN Some(val) ELSE None
    ELSE None

\* Char::to_digit
to_digit(self, r) ==
    IF r > 36 THEN Panic
    ELSE IF self >= 48 /\ self <= 57 THEN
        LET val == self - 48 IN IF val < r THEN Some(val) ELSE None
    ELSE IF self >= 97 /\ self <= 122 THEN
        LET val == self + 10 - 97 IN IF val < r THEN Some(val) ELSE None
    ELSE IF self >= 65 /\ self <= 90 THEN
        LET val == self + 10 - 65 IN IF val < r THEN Some(val) ELSE None
    ELSE None

\* Char::is_digit: a panic of to_digit unwinds through it
is_digit(self, r) ==
    LET d == to_digit(self, r) IN
    IF d = Panic THEN Panic
    ELSE IF IsSome(d) THEN Ok(TRUE)
    ELSE Ok(FALSE)

\* from_digit that answers with uppercase letters
from_digit_Upper(n, r) ==
    IF r > 36 THEN Panic
    ELSE IF n < r THEN
        IF n < 10 THEN Some(48 + n) ELSE Some(65 + n - 10)
    ELSE None

\* from_digit
from_digit(n, r) ==
    IF r > 36 THEN Panic
    ELSE IF n < r THEN
        IF n < 10 THEN Some(48 + n) ELSE Some(97 + n - 10)
    ELSE None

\* a caller that has not called yet; each behaviour makes one call
InitDigit ==
    /\ op = "init"
    /\ c = 0
    /\ ret = None
    /\ IdleEnc
    /\ IdleDigit
    /\ IdleEsc

\* ch.to_digit(r)
ToDigit ==
    /\ op = "init"
    /\ \E ch \in Chars, r \in 0 .. MaxRadix :
        /\ op' = "to_digit"
        /\ c' = ch
        /\ radix' = r
        /\ num' = 0
        /\ ret' = to_digit(ch, r)
        /\ UNCHANGED << encVars, escVars >>

\* ch.is_digit(r)
IsDigit ==
    /\ op = "init"
    /\ \E ch \in Chars, r \in 0 .. MaxRadix :
        /\ op' = "is_digit"
        /\ c' = ch
        /\ radix' = r
        /\ num' = 0
        /\ ret' = is_digit(ch, r)
        /\ UNCHANGED << encVars, escVars >>

\* from_digit(n, r)
FromDigit ==
    /\ op = "init"
    /\ \E n \in 0 .. MaxNum, r \in 0 .. MaxRadix :
        /\ op' = "from_digit"
        /\ c' = 0
        /\ radix' = r
        /\ num' = n
        /\ ret' = from_digit(n, r)
        /\ UNCHANGED << encVars, escVars >>

NextDigit == ToDigit \/ IsDigit \/ FromDigit

SpecDigit == InitDigit /\ [][NextDigit]_vars

----------------------------------------------------------------------------
(* Escape iterators *)

\* iter::range_step(start, stop, step)
range_step(start, stop, step) ==
    [state |-> start, stop |-> stop, step |-> step, rev |-> step < 0]

\* RangeStep::next: the range after the call and the returned value
RangeStepNext(r) ==
    IF (r.rev /\ r.state > r.stop) \/ (~r.rev /\ r.state < r.stop)
    THEN [range |-> [r EXCEPT !.state = r.state + r.step], ret |-> Some(r.state)]
    ELSE [range |-> r, ret |-> None]

\* Char::escape_unicode
escape_unicode(self) == [c |-> self, state |-> "Backslash"]

\* UnicodeEscapedChars::next that writes the digits above 9 in uppercase
UnicodeNext_Upper(it) ==
    IF it.state = "Backslash" THEN
        [it |-> [c |-> it.c, state |-> "Type"], ret |-> Some(92)]
    ELSE IF it.state = "Type" THEN
        LET tp == IF it.c <= 127 THEN << 120, 2 >>
                  ELSE IF it.c <= 65535 THEN << 117, 4 >>
                  ELSE << 85, 8 >>
            typechar == tp[1]
            pad == tp[2]
        IN [it |-> [c |-> it.c, state |-> "Value",
                    range |-> range_step(4 * (pad - 1), -1, -4)],
            ret |-> Some(typechar)]
    ELSE
        LET n == RangeStepNext(it.range) IN
        IF IsSome(n.ret) THEN
            LET offset == n.ret.val
                i == BitAnd(Shr(it.c, offset), 15)
                v == IF i >= 0 /\ i <= 9 THEN 48 + i ELSE 65 + (i - 10)
            IN [it |-> [it EXCEPT !.range = n.range], ret |-> Some(v)]
        ELSE
            [it |-> [it EXCEPT !.range = n.range], ret |-> None]

\* UnicodeEscapedChars::next: the iterator after the call and the returned
\* value
UnicodeNext(it) ==
    IF it.state = "Backslash" THEN
        [it |-> [c |-> it.c, state |-> "Type"], ret |-> Some(92)]
    ELSE IF it.state = "Type" THEN
        LET tp == IF it.c <= 127 THEN << 120, 2 >>
                  ELSE IF it.c <= 65535 THEN << 117, 4 >>
                  ELSE << 85, 8 >>
            typechar == tp[1]
            pad == tp[2]
        IN [it |-> [c |-> it.c, state |-> "Value",
                    range |-> range_step(4 * (pad - 1), -1, -4)],
            ret |-> Some(typechar)]
    ELSE
        LET n == RangeStepNext(it.range) IN
        IF IsSome(n.ret) THEN
            LET offset == n.ret.val
                i == BitAnd(Shr(it.c, offset), 15)
                v == IF i >= 0 /\ i <= 9 THEN 48 + i ELSE 97 + (i - 10)
            IN [it |-> [it EXCEPT !.range = n.range], ret |-> Some(v)]
        ELSE
            [it |-> [it EXCEPT !.range = n.range], ret |-> None]

\* escape_default that takes DEL (0x7f) for a printable char
escape_default_Del(self) ==
    IF self = 9 THEN [state |-> "Backslash", c |-> 116]
    ELSE IF self = 13 THEN [state |-> "Backslash", c |-> 114]
    ELSE IF self = 10 THEN [state |-> "Backslash", c |-> 110]
    ELSE IF self = 92 THEN [state |-> "Backslash", c |-> 92]
    ELSE IF self = 39 THEN [state |-> "Backslash", c |-> 39]
    ELSE IF self = 34 THEN [state |-> "Backslash", c |-> 34]
    ELSE IF self >= 32 /\ self <= 127 THEN [state |-> "Char", c |-> self]
    ELSE [state |-> "Unicode", iter |-> escape_unicode(self)]

\* Char::escape_default
escape_default(self) ==
    IF self = 9 THEN [state |-> "Backslash", c |-> 116]
    ELSE IF self = 13 THEN [state |-> "Backslash", c |-> 114]
    ELSE IF self = 10 THEN [state |-> "Backslash", c |-> 110]
    ELSE IF self = 92 THEN [state |-> "Backslash", c |-> 92]
    ELSE IF self = 39 THEN [state |-> "Backslash", c |-> 39]
    ELSE IF self = 34 THEN [state |-> "Backslash", c |-> 34]
    ELSE IF self >= 32 /\ self <= 126 THEN [state |-> "Char", c |-> self]
    ELSE [state |-> "Unicode", iter |-> escape_unicode(self)]

\* DefaultEscapedChars::next
DefaultNext(it) ==
    IF it.state = "Backslash" THEN
        [it |-> [state |-> "Char", c |-> it.c], ret |-> Some(92)]
    ELSE IF it.state = "Char" THEN
        [it |-> [state |-> "Done"], ret |-> Some(it.c)]
    ELSE IF it.state = "Done" THEN
        [it |-> it, ret |-> None]
    ELSE
        LET n == UnicodeNext(it.iter) IN
        [it |-> [it EXCEPT !.iter = n.it], ret |-> n.ret]

\* what a consumer that drains an iterator keeps of one next() call
Yield(out, r) == IF IsSome(r) THEN Append(out, r.val) ELSE out
Nones(k, r) == IF IsSome(r) THEN k ELSE k + 1

\* both iterators freshly made from the same char, nothing drained yet
InitEscape ==
    /\ op = "init"
    /\ c \in Chars
    /\ ret = None
    /\ IdleEnc
    /\ IdleDigit
    /\ uni = escape_unicode(c)
    /\ uniOut = << >>
    /\ uniRet = None
    /\ uniNones = 0
    /\ def = escape_default(c)
    /\ defOut = << >>
    /\ defRet = None
    /\ defNones = 0

\* the consumer calls uni.next()
UnicodeEscapedCharsNext ==
    /\ uniNones <= MaxNone
    /\ LET n == UnicodeNext(uni) IN
        /\ uni' = n.it
        /\ uniRet' = n.ret
        /\ uniOut' = Yield(uniOut, n.ret)
        /\ uniNones' = Nones(uniNones, n.ret)
    /\ op' = "unicode_next"
    /\ UNCHANGED << c, ret, encVars, digitVars, def, defOut, defRet, defNones >>

\* the consumer calls def.next()
DefaultEscapedCharsNext ==
    /\ defNones <= MaxNone
    /\ LET n == DefaultNext(def) IN
        /\ def' = n.it
        /\ defRet' = n.ret
        /\ defOut' = Yield(defOut, n.ret)
        /\ defNones' = Nones(defNones, n.ret)
    /\ op' = "default_next"
    /\ UNCHANGED << c, ret, encVars, digitVars, uni, uniOut, uniRet, uniNones >>

NextEscape == UnicodeEscapedCharsNext \/ DefaultEscapedCharsNext

SpecEscape == InitEscape /\ [][NextEscape]_vars

----------------------------------------------------------------------------
(* Claims about the encoders, checked under SpecEncode *)

\* the length the claims state for UTF-8: 1 if code < 0x80, 2 if code < 0x800,
\* 3 if code < 0x10000, else 4
NeedUtf8(ch) == IF ch < 128 THEN 1 ELSE IF ch < 2048 THEN 2 ELSE IF ch < 65536 THEN 3 ELSE 4

\* the length the claims state for UTF-16
NeedUtf16(ch) == IF ch <= 65535 THEN 1 ELSE 2

Need(w, ch) == IF w = 8 THEN NeedUtf8(ch) ELSE NeedUtf16(ch)

\* C1: an encode call on a buffer smaller than the required length returns
\* None and changes no element; otherwise it returns Some(n) and changes no
\* element at (0-based) index >= n; the capacity never changes.
C1_Frame ==
    [][ IF Len(dst) < Need(width, c)
        THEN ret' = None /\ dst' = dst
        ELSE /\ IsSome(ret')
             /\ Len(dst') = Len(dst)
             /\ \A i \in 1 .. Len(dst) : i > ret'.val => dst'[i] = dst[i] ]_vars

\* a failed call on a non-empty all-ones buffer, which is still all ones
C1_Witness ==
    /\ op = "encode_utf8"
    /\ c >= 65536
    /\ ret = None
    /\ dst = << 255, 255, 255 >>

IsCont(b) == b >= 128 /\ b <= 191

\* a standard UTF-8 decoder: the code point of a well-formed 1..4 byte
\* sequence, -1 for anything else
Utf8Decode(bs) ==
    IF Len(bs) = 1 /\ bs[1] < 128 THEN bs[1]
    ELSE IF Len(bs) = 2 /\ bs[1] >= 192 /\ bs[1] <= 223 /\ IsCont(bs[2])
        THEN (bs[1] - 192) * 64 + (bs[2] - 128)
    ELSE IF Len(bs) = 3 /\ bs[1] >= 224 /\ bs[1] <= 239 /\ IsCont(bs[2]) /\ IsCont(bs[3])
        THEN (bs[1] - 224) * 4096 + (bs[2] - 128) * 64 + (bs[3] - 128)
    ELSE IF Len(bs) = 4 /\ bs[1] >= 240 /\ bs[1] <= 247
            /\ IsCont(bs[2]) /\ IsCont(bs[3]) /\ IsCont(bs[4])
        THEN (bs[1] - 240) * 262144 + (bs[2] - 128) * 4096 + (bs[3] - 128) * 64 + (bs[4] - 128)
    ELSE -1

Written == SubSeq(dst, 1, ret.val)

\* C2: with enough capacity encode_utf8 returns Some(len_utf8(c)), the length
\* being 1/2/3/4 by the thresholds 0x80/0x800/0x10000, and the written prefix
\* is the standard UTF-8 encoding of c (it decodes back to c; a 1-byte
\* encoding is the code itself; 'A' -> [0x41], U+20AC -> [0xE2,0x82,0xAC]).
C2_Utf8 ==
    (op = "encode_utf8" /\ Len(dst) >= NeedUtf8(c)) =>
        /\ len_utf8(c) = NeedUtf8(c)
        /\ ret = Some(len_utf8(c))
        /\ Utf8Decode(Written) = c
        /\ (ret.val = 1 => dst[1] = c)
        /\ (c = 65 => Written = << 65 >>)
        /\ (c = 8364 => Written = << 226, 130, 172 >>)

C2_Witness ==
    /\ op = "encode_utf8"
    /\ c = 8364
    /\ Len(dst) = 5
    /\ ret = Some(3)
    /\ Written = << 226, 130, 172 >>

\* C3: with enough capacity encode_utf16 returns Some(len_utf16(c)); a code
\* point <= 0xFFFF is written as itself in one unit; any other as a high
\* surrogate in [0xD800,0xDBFF] then a low surrogate in [0xDC00,0xDFFF] that
\* combine back to the code point (U+1F600 -> [0xD83D,0xDE00]).
C3_Utf16 ==
    (op = "encode_utf16" /\ Len(dst) >= NeedUtf16(c)) =>
        /\ len_utf16(c) = NeedUtf16(c)
        /\ ret = Some(len_utf16(c))
        /\ (c <= 65535 => ret.val = 1 /\ dst[1] = c)
        /\ (c > 65535 =>
                /\ ret.val = 2
                /\ dst[1] >= 55296 /\ dst[1] <= 56319
                /\ dst[2] >= 56320 /\ dst[2] <= 57343
                /\ 65536 + (dst[1] - 55296) * 1024 + (dst[2] - 56320) = c)
        /\ (c = 128512 => Written = << 55357, 56832 >>)

C3_Witness ==
    /\ op = "encode_utf16"
    /\ c = 128512
    /\ Len(dst) = 3
    /\ ret = Some(2)
    /\ Written = << 55357, 56832 >>

----------------------------------------------------------------------------
(* Claims about the digit codec, checked under SpecDigit *)

IsAsciiAlnum(ch) ==
    (ch >= 48 /\ ch <= 57) \/ (ch >= 97 /\ ch <= 122) \/ (ch >= 65 /\ ch <= 90)

\* the case-insensitive digit value of an ASCII alphanumeric:
\* c-'0', c-'a'+10 or c-'A'+10
DigitValue(ch) ==
    IF ch <= 57 THEN ch - 48 ELSE IF ch >= 97 THEN ch - 97 + 10 ELSE ch - 65 + 10

IsDigitOf(ch, r) == IsAsciiAlnum(ch) /\ DigitValue(ch) < r

\* C4: for a radix in [2,36], to_digit(c, r) returns a value (and
\* is_digit(c, r) is true) exactly when c is an ASCII alphanumeric whose
\* case-insensitive digit value is < r, and the value returned is that
\* digit value.
C4_ToDigit ==
    (radix >= 2 /\ radix <= 36) =>
        /\ op = "to_digit" =>
              ret = (IF IsDigitOf(c, radix) THEN Some(DigitValue(c)) ELSE None)
        /\ op = "is_digit" => ret = Ok(IsDigitOf(c, radix))

\* 'F' is the digit 15 in radix 16
C4_Witness ==
    /\ op = "to_digit"
    /\ c = 70
    /\ radix = 16
    /\ ret = Some(15)

\* C5: for a radix r in [2,36], from_digit(d, r) with d < r returns a char
\* that to_digit maps back to d, in '0'..'9' when d < 10 and in 'a'..'z'
\* when d >= 10; with d >= r it returns None.
C5_RoundTrip ==
    (op = "from_digit" /\ radix >= 2 /\ radix <= 36) =>
        IF num < radix
        THEN /\ IsSome(ret)
             /\ to_digit(ret.val, radix) = Some(num)
             /\ (num < 10 => ret.val >= 48 /\ ret.val <= 57)
             /\ (num >= 10 => ret.val >= 97 /\ ret.val <= 122)
        ELSE ret = None

\* from_digit(15, 16) is 'f'
C5_Witness ==
    /\ op = "from_digit"
    /\ num = 15
    /\ radix = 16
    /\ ret = Some(102)

\* C6: with a radix > 36 to_digit, is_digit and from_digit panic whatever
\* the other argument is; with a radix <= 36 none of them panics.
C6_Panic ==
    (op \in {"to_digit", "is_digit", "from_digit"}) =>
        (ret = Panic <=> radix > 36)

\* to_digit('!', 37) panics although '!' is no digit in any radix
C6_Witness ==
    /\ op = "to_digit"
    /\ c = 33
    /\ radix = 37
    /\ ret = Panic

\* C10 as stated: for radix 0 and radix 1 to_digit returns None and is_digit
\* is false for every char.
C10_Original ==
    (radix <= 1) =>
        /\ op = "to_digit" => ret = None
        /\ op = "is_digit" => ret = Ok(FALSE)

\* C10 amended: for radix 0 to_digit returns None and is_digit is false for
\* every char; for radix 1 the same holds for every char except '0', for
\* which to_digit returns Some(0) and is_digit is true.  Neither panics.
C10_LowRadix ==
    (radix <= 1) =>
        /\ op = "to_digit" =>
              ret = (IF radix = 1 /\ c = 48 THEN Some(0) ELSE None)
        /\ op = "is_digit" => ret = Ok(radix = 1 /\ c = 48)

\* to_digit('0', 1) has returned Some(0)
C10_Witness ==
    /\ op = "to_digit"
    /\ c = 48
    /\ radix = 1
    /\ ret = Some(0)

----------------------------------------------------------------------------
(* Claims about the escape iterators, checked under SpecEscape *)

IsPrefix(s, t) == Len(s) <= Len(t) /\ s = SubSeq(t, 1, Len(s))

Last(s) == s[Len(s)]

\* what the consumer must have seen of an iterator whose complete output is
\* full: a prefix of full, the last element being what next() returned last;
\* None is returned only after all of full, and then nothing more is yielded
DrainsTo(out, last, nones, full) ==
    /\ IsPrefix(out, full)
    /\ nones > 0 => (out = full /\ last = None)
    /\ (nones = 0 /\ Len(out) > 0) => last = Some(Last(out))

IsLowerHex(ch) == (ch >= 48 /\ ch <= 57) \/ (ch >= 97 /\ ch <= 102)

\* the number a string of lowercase hex digits reads as
RECURSIVE HexVal(_)
HexVal(s) ==
    IF s = << >> THEN 0
    ELSE LET d == Last(s) IN
         (IF d <= 57 THEN d - 48 ELSE d - 97 + 10) + 16 * HexVal(SubSeq(s, 1, Len(s) - 1))

PadOf(ch) == IF ch <= 127 THEN 2 ELSE IF ch <= 65535 THEN 4 ELSE 8
TagOf(ch) == IF ch <= 127 THEN 120 ELSE IF ch <= 65535 THEN 117 ELSE 85

RECURSIVE Drain(_)
Drain(it) ==
    LET n == UnicodeNext(it) IN
    IF IsSome(n.ret) THEN << n.ret.val >> \o Drain(n.it) ELSE << >>

\* the complete output C8 states for escape_default(ch)
DefaultOutput(ch) ==
    IF ch = 9 THEN << 92, 116 >>
    ELSE IF ch = 13 THEN << 92, 114 >>
    ELSE IF ch = 10 THEN << 92, 110 >>
    ELSE IF ch = 92 THEN << 92, 92 >>
    ELSE IF ch = 39 THEN << 92, 39 >>
    ELSE IF ch = 34 THEN << 92, 34 >>
    ELSE IF ch >= 32 /\ ch <= 126 THEN << ch >>
    ELSE Drain(escape_unicode(ch))

\* C8: escape_default(c) yields '\' and the payload for tab, CR, LF,
\* backslash and the two quotes, c itself for any other char in [0x20,0x7e],
\* and what a fresh escape_unicode(c) yields for every other c; after the
\* last element every next() returns None.
C8_Default == DrainsTo(defOut, defRet, defNones, DefaultOutput(c))

\* '\n' drained to \n, and next() called again after the end
C8_Witness ==
    /\ c = 10
    /\ defNones >= 2
    /\ defRet = None
    /\ defOut = << 92, 110 >>

\* C7: every char in [0,0xff] gets the 2-digit escape \xNN from
\* escape_unicode, and escape_default of U+00FF yields '\', 'x', 'f', 'f'.
C7_TwoDigit ==
    /\ (c <= 255 /\ uniNones > 0) => (Len(uniOut) = 4 /\ uniOut[2] = 120)
    /\ (c = 255 /\ defNones > 0) => defOut = << 92, 120, 102, 102 >>

====
